---- MODULE Spec2Model ----
(***************************************************************************)
(* A model of dingo's PuLP based routines (src/dingo/pulp_based_impl.py):  *)
(* remove_redundant_facets with the fba call it makes, and inner_ball.     *)
(*                                                                         *)
(* Numbers are integers in units of 1e-07, so redundant_facet_tol is 1,    *)
(* tol is 10 and the literal 1 that relaxes a bound is 10000000.           *)
(* sys.float_info.max is the saturating value FloatMax.                    *)
(*                                                                         *)
(* The LP solver is outside the repository.  It is modelled in two ways,   *)
(* chosen in Init:                                                         *)
(*   "lattice"  an exact optimiser over the integer points of a box that   *)
(*              strictly contains every finite bound; an optimum that      *)
(*              moves when the box grows is reported Unbounded;            *)
(*   "free"     any status and any of a few values 1e-07 apart.            *)
(* In both the solver may also raise.                                      *)
(***************************************************************************)
EXTENDS Integers, Sequences, FiniteSets, TLC

(* ---------------------------------------------------------------- bounds *)
N == 2          \* number of reactions (columns of S)
MaxB == 1       \* input bounds are 0..MaxB (in units of One)
MaxNoise == 2   \* the free oracle's values are 0..MaxNoise (in units of 1e-07)

(* ------------------------------------------------------------- constants *)
RedundantFacetTol == 1
Tol == 10
One == 10000000
FloatMax == 2000000000

Coords == 1..N
KMin == 0 - (MaxB + 2)
KMax == MaxB + 2
KGrid == KMin..KMax
KInner == (KMin + 1)..(KMax - 1)

Abs(x) == IF x < 0 THEN 0 - x ELSE x
Min2(x, y) == IF x <= y THEN x ELSE y
SetMax(T) == CHOOSE x \in T : \A y \in T : y <= x
SetMin(T) == CHOOSE x \in T : \A y \in T : x <= y
IsInf(x) == x = FloatMax \/ x = 0 - FloatMax

(* float arithmetic on values that may be +-sys.float_info.max *)
FAdd(x, d) == IF IsInf(x) THEN x ELSE x + d
FNeg(x) == 0 - x
FAbsDiff(x, y) ==
    IF x = y THEN 0
    ELSE IF IsInf(x) \/ IsInf(y) THEN FloatMax
    ELSE Abs(x - y)

RECURSIVE DotK(_, _, _)
DotK(row, p, j) == IF j = 0 THEN 0 ELSE row[j] * p[j] + DotK(row, p, j - 1)
(* dot: the row times the point, in units of One *)
dot(row, p) == DotK(row, p, N)

Unit(i) == [j \in Coords |-> IF j = i THEN 1 ELSE 0]
NegUnit(i) == [j \in Coords |-> IF j = i THEN -1 ELSE 0]
NegVec(v) == [j \in Coords |-> 0 - v[j]]

(* A = [I; -I], rows 1..2N *)
A(r) == IF r <= N THEN Unit(r) ELSE NegUnit(r - N)

(* ------------------------------------------------------------ LP oracle *)
Points(G) == [Coords -> G]

(* the points of the grid G the model of set_model admits *)
Feasible(G, lo, hi, Ae, be, Ai, bi) ==
    {p \in Points(G) :
        /\ \A j \in Coords : lo[j] <= p[j] * One /\ p[j] * One <= hi[j]
        /\ \A r \in 1..Len(Ae) : dot(Ae[r], p) * One = be[r]
        /\ \A r \in 1..Len(Ai) : dot(Ai[r], p) * One <= bi[r]}

Best(sense, obj, F) ==
    IF sense = "max" THEN SetMax({dot(obj, p) : p \in F})
    ELSE SetMin({dot(obj, p) : p \in F})

LatticeSolve(sense, obj, lo, hi, Ae, be, Ai, bi) ==
    LET F == Feasible(KGrid, lo, hi, Ae, be, Ai, bi)
        Fin == {p \in F : \A j \in Coords : p[j] \in KInner}
    IN  IF F = {} THEN [status |-> "Infeasible", value |-> 0]
        ELSE IF Fin = {} \/ Best(sense, obj, Fin) # Best(sense, obj, F)
             THEN [status |-> "Unbounded", value |-> 0]
        ELSE [status |-> "Optimal", value |-> Best(sense, obj, F) * One]

FreeValues == 0..MaxNoise
FreeOutcomes ==
    {[status |-> "Optimal", value |-> x] : x \in FreeValues}
        \cup {[status |-> "Infeasible", value |-> 0]}

(* what model.solve leaves in model.status and model.objective *)
Solve(mode, sense, obj, lo, hi, Ae, be, Ai, bi) ==
    IF mode = "lattice" THEN {LatticeSolve(sense, obj, lo, hi, Ae, be, Ai, bi)}
    ELSE FreeOutcomes

(* ---------------------------------------------------------------- inputs *)
BVals == {k * One : k \in 0..MaxB}
RowDiff == [j \in Coords |-> IF j = 1 THEN 1 ELSE IF j = 2 THEN -1 ELSE 0]
RowSum == [j \in Coords |-> IF j <= 2 THEN 1 ELSE 0]
SMats == {<<>>, <<RowDiff>>, <<RowSum>>}
CVecs == {Unit(1), NegUnit(1), RowSum}
Pcts == {0, 100}
Zeros(m) == [r \in 1..m |-> 0]
Falses == [j \in Coords |-> FALSE]
Range == [j \in Coords |-> j]

VARIABLES
    oracle,                 \* "lattice" or "free": the solver behind pl.getSolver
    lbSize, ubSize, cSize,  \* lb.size, ub.size, c.size
    lb, ub, S, c, opt_percentage,
    beq_in,                 \* right-hand side of the equality system of the call
    pc, outcome, run, pass,
    b, Aeq_res, beq_res, A_res, b_res, Aeq, beq, val,
    indices, indices_iter, k, removed, offset,
    facet_left_removed, facet_right_removed,
    redundant_facet_left, redundant_facet_right,
    max_objective, min_objective,
    max_objective2, min_objective2,
    orig,                   \* the caller's lb, ub, S at the first call
    first,                  \* the tuple the first call returned
    converted,              \* coordinates turned into equalities in this call
    status,                 \* model.status after the last solve
    solved,                 \* an LP solve has been issued in this call
    solver_error            \* the solver has raised in this call

(* inner_ball(A, b) on a box A = [I; -I].  Lengths are in halves, so that
   the centre and the radius of every such box are integers *)
VARIABLES
    ball_pc, ball_n, ball_b, extra_column, ball_point, ball_r, ball_out

ball == <<ball_pc, ball_n, ball_b, extra_column, ball_point, ball_r, ball_out>>

vars == <<oracle, lbSize, ubSize, cSize, lb, ub, S, c, opt_percentage, beq_in,
          pc, outcome, run, pass, b, Aeq_res, beq_res, A_res, b_res, Aeq, beq,
          val, indices, indices_iter, k, removed, offset, facet_left_removed,
          facet_right_removed, redundant_facet_left, redundant_facet_right,
          max_objective, min_objective, max_objective2, min_objective2, orig,
          first, converted, status, solved, solver_error, ball>>

inputs == <<oracle, lbSize, ubSize, cSize, S, c, opt_percentage, beq_in, orig>>
results == <<Aeq_res, beq_res, A_res, b_res>>
locals == <<b, Aeq, beq, val, indices, indices_iter, k, removed, offset,
            facet_left_removed, facet_right_removed, redundant_facet_left,
            redundant_facet_right, max_objective, min_objective, max_objective2,
            min_objective2, status>>

(* the current coordinate of the for loop *)
i == indices[k]

(* the state of a call before its first statement *)
Entry ==
    /\ outcome = "none" /\ run = 1 /\ pass = 0
    /\ beq_in = Zeros(Len(S))
    /\ b = <<>> /\ Aeq_res = <<>> /\ beq_res = <<>> /\ A_res = <<>> /\ b_res = <<>>
    /\ Aeq = <<>> /\ beq = <<>> /\ val = 0
    /\ indices = <<>> /\ indices_iter = <<>> /\ k = 1
    /\ removed = 0 /\ offset = 0
    /\ facet_left_removed = Falses /\ facet_right_removed = Falses
    /\ redundant_facet_left = TRUE /\ redundant_facet_right = TRUE
    /\ max_objective = 0 /\ min_objective = 0
    /\ max_objective2 = 0 /\ min_objective2 = 0
    /\ orig = [lb |-> lb, ub |-> ub, S |-> S]
    /\ first = <<>> /\ converted = {} /\ status = "Not Solved"
    /\ solved = FALSE /\ solver_error = FALSE

(* no call of inner_ball is under way *)
BallIdle ==
    /\ ball_pc = "idle" /\ ball_n = 0 /\ ball_b = <<>> /\ extra_column = <<>>
    /\ ball_point = <<>> /\ ball_r = 0 /\ ball_out = "none"

Init ==
    /\ \/ /\ oracle = "lattice"
          /\ lb \in [Coords -> BVals] /\ ub \in [Coords -> BVals]
          /\ S \in SMats /\ c \in CVecs /\ opt_percentage \in Pcts
          /\ lbSize = N /\ ubSize = N /\ cSize = N
       \/ /\ oracle = "free"
          /\ lb = [j \in Coords |-> 0] /\ ub = [j \in Coords |-> MaxB * One]
          /\ S = <<>> /\ c = Unit(1) /\ opt_percentage = 100
          /\ lbSize \in {N, N + 1} /\ ubSize \in {N, N + 1} /\ cSize \in {N, N + 1}
    /\ pc = "entry" /\ Entry
    /\ BallIdle

(* --------------------------------------------------------------- actions *)
(* line 273 *)
BoundSizesOk == lbSize = N /\ ubSize = N
(* fba without the test of line 41 *)
ObjectiveSizeOkSkipped == TRUE
(* fba, line 41 (line 37 repeats line 273) *)
ObjectiveSizeOk == cSize = N

(* lines 273-299: the size check, then b and the result arrays *)
CheckSizes ==
    /\ pc = "entry"
    /\ IF ~BoundSizesOk
       THEN /\ outcome' = "Exception" /\ pc' = "done"
            /\ UNCHANGED <<b, Aeq_res, beq_res, A_res, b_res>>
       ELSE /\ b' = [r \in 1..(2 * N) |-> IF r <= N THEN ub[r] ELSE FNeg(lb[r - N])]
            /\ Aeq_res' = S /\ beq_res' = beq_in
            /\ b_res' = <<>> /\ A_res' = <<>>
            /\ pc' = "fba" /\ UNCHANGED outcome
    /\ UNCHANGED <<ball, inputs, lb, ub, run, pass, Aeq, beq, val, indices, indices_iter, k,
                   removed, offset, facet_left_removed, facet_right_removed,
                   redundant_facet_left, redundant_facet_right, max_objective,
                   min_objective, first, converted, status, solved, solver_error,
                   max_objective2, min_objective2>>

(* fba, lines 41-44: raised outside fba's try and outside the caller's *)
FbaSizeError ==
    /\ pc = "fba" /\ ~ObjectiveSizeOk
    /\ outcome' = "Exception" /\ pc' = "done"
    /\ UNCHANGED <<ball, inputs, lb, ub, run, pass, results, locals, first, converted,
                   solved, solver_error>>

(* line 302, in units of 1e-07: tol / 100 is applied as one division, which is
   exact for the percentages of Pcts *)
Val(optimum, pct) == 0 - ((((optimum \div Tol) * pct)) \div (100 \div Tol))

(* fba, lines 46-75, and lines 301-313 of the caller *)
Fba ==
    /\ pc = "fba" /\ ObjectiveSizeOk
    /\ \E out \in Solve(oracle, "max", c, lb, ub, S, beq_in, <<>>, <<>>) :
          LET max_biomass_objective ==
                  IF out.status = "Optimal" THEN out.value ELSE 0
          IN  /\ val' = Val(max_biomass_objective, opt_percentage)
              /\ status' = out.status
    /\ solved' = TRUE
    /\ indices_iter' = Range
    /\ removed' = 1 /\ offset' = 1
    /\ facet_left_removed' = Falses /\ facet_right_removed' = Falses
    /\ pc' = "while"
    /\ UNCHANGED <<ball, inputs, lb, ub, run, pass, outcome, results, b, Aeq, beq, indices, k,
                   redundant_facet_left, redundant_facet_right, max_objective,
                   min_objective, first, converted, solver_error,
                   max_objective2, min_objective2>>

(* fba, lines 77-80: the error is printed and fba returns None; line 301 then
   unpacks None, outside the try of line 304 *)
FbaSolverError ==
    /\ pc = "fba" /\ ObjectiveSizeOk
    /\ solved' = TRUE /\ solver_error' = TRUE
    /\ outcome' = "TypeError" /\ pc' = "done"
    /\ UNCHANGED <<ball, inputs, lb, ub, run, pass, results, locals, first, converted>>

(* lines 316-328: one more pass *)
PassStart ==
    /\ pc = "while" /\ (removed > 0 \/ offset > 0)
    /\ removed' = 0 /\ offset' = 0
    /\ indices' = indices_iter /\ indices_iter' = <<>>
    /\ Aeq' = Aeq_res /\ beq' = beq_res
    /\ A_res' = <<>> /\ b_res' = <<>>
    /\ k' = 1 /\ pass' = pass + 1
    /\ pc' = "for"
    /\ UNCHANGED <<ball, inputs, lb, ub, run, outcome, Aeq_res, beq_res, b, val,
                   facet_left_removed, facet_right_removed, redundant_facet_left,
                   redundant_facet_right, max_objective, min_objective, first,
                   converted, status, solved, solver_error,
                   max_objective2, min_objective2>>

(* lines 316, 440-444: the loop ends and the tuple is returned *)
Return ==
    /\ pc = "while" /\ ~(removed > 0 \/ offset > 0)
    /\ outcome' = "tuple" /\ pc' = "done"
    /\ UNCHANGED <<ball, inputs, lb, ub, run, pass, results, locals, first, converted,
                   solved, solver_error>>

(* lines 330-337: the next undecided coordinate *)
NextCoordinate ==
    /\ pc = "for" /\ k <= Len(indices)
    /\ redundant_facet_right' = TRUE /\ redundant_facet_left' = TRUE
    /\ pc' = "max"
    /\ UNCHANGED <<ball, inputs, lb, ub, run, pass, outcome, results, b, Aeq, beq, val,
                   indices, indices_iter, k, removed, offset, facet_left_removed,
                   facet_right_removed, max_objective, min_objective, first,
                   converted, status, solved, solver_error,
                   max_objective2, min_objective2>>

(* line 330: the for loop is exhausted *)
PassEnd ==
    /\ pc = "for" /\ k > Len(indices)
    /\ pc' = "while"
    /\ UNCHANGED <<ball, inputs, lb, ub, run, pass, outcome, results, locals, first,
                   converted, solved, solver_error>>

(* the LP of model_iter (line 328) under the bounds lo, hi: the equalities of
   the pass and the row -c x <= val *)
SolveIter(sense, j, lo, hi) ==
    Solve(oracle, sense, Unit(j), lo, hi, Aeq, beq, <<NegVec(c)>>, <<val>>)

(* lines 346-350 *)
MaxObjective(out, j) == IF out.status = "Optimal" THEN out.value ELSE ub[j]
(* lines 378-382 *)
MinObjective(out, j) == IF out.status = "Optimal" THEN out.value ELSE lb[j]
(* line 353 without the flag: the right side is tested in every pass *)
TestRightAlways(j) == TRUE
(* lines 353 and 385 *)
TestRight(j) == ~facet_right_removed[j]
(* line 385 without the flag: the left side is tested in every pass *)
TestLeftAlways(j) == TRUE
TestLeft(j) == ~facet_left_removed[j]
(* line 366 with >= in place of > *)
StaysActiveAtTol(relaxed, original) ==
    FAbsDiff(relaxed, original) >= RedundantFacetTol
(* lines 366 and 398-401 *)
StaysActive(relaxed, original) == FAbsDiff(relaxed, original) > RedundantFacetTol
(* line 411 *)
SmallOffset(width) == width < RedundantFacetTol

(* lines 339-350: maximize v_i *)
SolveMax ==
    /\ pc = "max"
    /\ \E out \in SolveIter("max", i, lb, ub) :
          /\ max_objective' = MaxObjective(out, i)
          /\ status' = out.status
    /\ solved' = TRUE
    /\ pc' = IF TestRight(i) THEN "max_relaxed" ELSE "min"
    /\ UNCHANGED <<ball, inputs, lb, ub, run, pass, outcome, results, b, Aeq, beq, val,
                   indices, indices_iter, k, removed, offset, facet_left_removed,
                   facet_right_removed, redundant_facet_left, redundant_facet_right,
                   min_objective, first, converted, solver_error,
                   max_objective2, min_objective2>>

(* lines 353-370: the same LP with ub[i] + 1 *)
SolveMaxRelaxed ==
    /\ pc = "max_relaxed"
    /\ \E out \in SolveIter("max", i, lb, [ub EXCEPT ![i] = FAdd(ub[i], One)]) :
          /\ status' = out.status
          /\ max_objective2' = IF out.status = "Optimal" THEN out.value ELSE max_objective2
          /\ IF out.status = "Optimal"
             THEN IF StaysActive(out.value, max_objective)
                  THEN /\ redundant_facet_right' = FALSE
                       /\ UNCHANGED <<removed, facet_right_removed>>
                  ELSE /\ removed' = removed + 1
                       /\ facet_right_removed' = [facet_right_removed EXCEPT ![i] = TRUE]
                       /\ UNCHANGED redundant_facet_right
             ELSE UNCHANGED <<redundant_facet_right, removed, facet_right_removed>>
    /\ pc' = "min"
    /\ UNCHANGED <<ball, inputs, lb, ub, run, pass, outcome, results, b, Aeq, beq, val,
                   indices, indices_iter, k, offset, facet_left_removed,
                   redundant_facet_left, max_objective, min_objective, first,
                   converted, solved, solver_error,
                   min_objective2>>

(* lines 372-382: minimize v_i *)
SolveMin ==
    /\ pc = "min"
    /\ \E out \in SolveIter("min", i, lb, ub) :
          /\ min_objective' = MinObjective(out, i)
          /\ status' = out.status
    /\ pc' = IF TestLeft(i) THEN "min_relaxed" ELSE "decide"
    /\ UNCHANGED <<ball, inputs, lb, ub, run, pass, outcome, results, b, Aeq, beq, val,
                   indices, indices_iter, k, removed, offset, facet_left_removed,
                   facet_right_removed, redundant_facet_left, redundant_facet_right,
                   max_objective, first, converted, solved, solver_error,
                   max_objective2, min_objective2>>

(* lines 385-405: the same LP with lb[i] - 1 *)
SolveMinRelaxed ==
    /\ pc = "min_relaxed"
    /\ \E out \in SolveIter("min", i, [lb EXCEPT ![i] = FAdd(lb[i], 0 - One)], ub) :
          /\ status' = out.status
          /\ min_objective2' = IF out.status = "Optimal" THEN out.value ELSE min_objective2
          /\ IF out.status = "Optimal"
             THEN IF StaysActive(out.value, min_objective)
                  THEN /\ redundant_facet_left' = FALSE
                       /\ UNCHANGED <<removed, facet_left_removed>>
                  ELSE /\ removed' = removed + 1
                       /\ facet_left_removed' = [facet_left_removed EXCEPT ![i] = TRUE]
                       /\ UNCHANGED redundant_facet_left
             ELSE UNCHANGED <<redundant_facet_left, removed, facet_left_removed>>
    /\ pc' = "decide"
    /\ UNCHANGED <<ball, inputs, lb, ub, run, pass, outcome, results, b, Aeq, beq, val,
                   indices, indices_iter, k, offset, facet_right_removed,
                   redundant_facet_right, max_objective, min_objective, first,
                   converted, solved, solver_error,
                   max_objective2>>

(* lines 446-449: a solver error inside the try is printed; the call ends
   without a return statement *)
SolverError ==
    /\ pc \in {"max", "max_relaxed", "min", "min_relaxed"}
    /\ solved' = TRUE /\ solver_error' = TRUE
    /\ outcome' = "None" /\ pc' = "done"
    /\ UNCHANGED <<ball, inputs, lb, ub, run, pass, results, locals, first, converted>>

(* lines 411-417 followed by the append of line 420 *)
SetEqualityStillUndecided ==
    /\ offset' = offset + 1
    /\ Aeq_res' = Append(Aeq_res, A(i))
    /\ beq_res' = Append(beq_res, Min2(max_objective, min_objective))
    /\ ub' = [ub EXCEPT ![i] = FloatMax]
    /\ lb' = [lb EXCEPT ![i] = 0 - FloatMax]
    /\ converted' = converted \cup {i}
    /\ indices_iter' = Append(indices_iter, i)
    /\ UNCHANGED <<A_res, b_res>>

(* lines 411-417 without the append of line 414 *)
SetEqualityNoRhs ==
    /\ offset' = offset + 1
    /\ Aeq_res' = Append(Aeq_res, A(i))
    /\ ub' = [ub EXCEPT ![i] = FloatMax]
    /\ lb' = [lb EXCEPT ![i] = 0 - FloatMax]
    /\ converted' = converted \cup {i}
    /\ UNCHANGED <<beq_res, indices_iter, A_res, b_res>>

(* lines 411-417: the coordinate becomes an equality *)
SetEquality ==
    /\ offset' = offset + 1
    /\ Aeq_res' = Append(Aeq_res, A(i))
    /\ beq_res' = Append(beq_res, Min2(max_objective, min_objective))
    /\ ub' = [ub EXCEPT ![i] = FloatMax]
    /\ lb' = [lb EXCEPT ![i] = 0 - FloatMax]
    /\ converted' = converted \cup {i}
    /\ UNCHANGED <<indices_iter, A_res, b_res>>

(* lines 418-434: the coordinate stays, with a row for each active side *)
StoreDimension ==
    LET left == IF ~redundant_facet_left
                THEN <<[row |-> A(N + i), rhs |-> b[N + i]]>> ELSE <<>>
        right == IF ~redundant_facet_right
                 THEN <<[row |-> A(i), rhs |-> b[i]]>> ELSE <<>>
        rows == left \o right
    IN  /\ indices_iter' = Append(indices_iter, i)
        /\ A_res' = A_res \o [r \in 1..Len(rows) |-> rows[r].row]
        /\ b_res' = b_res \o [r \in 1..Len(rows) |-> rows[r].rhs]
        /\ lb' = IF redundant_facet_left THEN [lb EXCEPT ![i] = 0 - FloatMax] ELSE lb
        /\ ub' = IF redundant_facet_right THEN [ub EXCEPT ![i] = FloatMax] ELSE ub
        /\ UNCHANGED <<offset, Aeq_res, beq_res, converted>>

(* lines 435-438: both sides are redundant *)
DropDimension ==
    /\ ub' = [ub EXCEPT ![i] = FloatMax]
    /\ lb' = [lb EXCEPT ![i] = 0 - FloatMax]
    /\ UNCHANGED <<offset, Aeq_res, beq_res, converted, indices_iter, A_res, b_res>>

(* lines 407-438 *)
Decide ==
    /\ pc = "decide"
    /\ IF (~redundant_facet_left) \/ (~redundant_facet_right)
       THEN IF SmallOffset(FAbsDiff(max_objective, min_objective))
            THEN SetEquality
            ELSE StoreDimension
       ELSE DropDimension
    /\ k' = k + 1
    /\ pc' = "for"
    /\ UNCHANGED <<ball, inputs, run, pass, outcome, b, Aeq, beq, val, indices, removed,
                   facet_left_removed, facet_right_removed, redundant_facet_left,
                   redundant_facet_right, max_objective, min_objective, first,
                   status, solved, solver_error,
                   max_objective2, min_objective2>>

(* the tuple of line 444 *)
Result == [A_res |-> A_res, b_res |-> b_res, Aeq_res |-> Aeq_res, beq_res |-> beq_res]

(* the caller runs the reducer again on what it returned: lb and ub as the
   first call left them, the returned equalities as the equality system
   (lines 283-299 with Aeq_res, beq_res in place of S, 0).  Only with the
   exact solver: a second run under arbitrary answers repeats nothing *)
Rerun ==
    /\ pc = "done" /\ outcome = "tuple" /\ run = 1 /\ oracle = "lattice"
    /\ run' = 2 /\ first' = Result
    /\ S' = Aeq_res /\ beq_in' = beq_res
    /\ pc' = "entry" /\ outcome' = "none" /\ pass' = 0
    /\ converted' = {} /\ solved' = FALSE /\ solver_error' = FALSE
    /\ UNCHANGED <<ball, oracle, lbSize, ubSize, cSize, lb, ub, c, opt_percentage,
                   orig, results, locals>>

Next ==
    \/ CheckSizes \/ FbaSizeError \/ Fba \/ FbaSolverError
    \/ PassStart \/ Return \/ NextCoordinate \/ PassEnd
    \/ SolveMax \/ SolveMaxRelaxed \/ SolveMin \/ SolveMinRelaxed \/ SolverError
    \/ Decide \/ Rerun

Spec == Init /\ [][Next]_vars

(* a call that can take a step takes one: the interpreter runs the statements
   of lines 273-449 one after the other and every solve returns or raises *)
FairSpec == Spec /\ WF_vars(Next)

(* ------------------------------------------------------------ inner_ball *)
MaxBallN == 2   \* the boxes have 1..MaxBallN dimensions
MaxK == 1       \* their bounds are -1..MaxK

BallGridMax == 2 * MaxK + 2
BallGrid == (0 - BallGridMax)..BallGridMax
BallInner == (1 - BallGridMax)..(BallGridMax - 1)

(* row r of A = [I; -I] with n columns *)
BallA(n, r) == [j \in 1..n |-> IF j = r THEN 1 ELSE IF j = r - n THEN -1 ELSE 0]

RECURSIVE SumSquares(_, _)
SumSquares(row, j) == IF j = 0 THEN 0 ELSE row[j] * row[j] + SumSquares(row, j - 1)
(* the sum of the entries of a row, in place of its norm *)
RECURSIVE SumEntries(_, _)
SumEntries(row, j) == IF j = 0 THEN 0 ELSE row[j] + SumEntries(row, j - 1)
NormAsSum(row) == SumEntries(row, Len(row))

(* np.linalg.norm of a row whose norm is an integer *)
Norm(row) ==
    LET q == SumSquares(row, Len(row)) IN CHOOSE x \in 0..q : x * x = q

RECURSIVE DotN(_, _, _)
DotN(row, p, j) == IF j = 0 THEN 0 ELSE row[j] * p[j] + DotN(row, p, j - 1)

(* lines 204-214: the points (x, r), in halves, with A_expand (x, r) <= b *)
BallFeasible(G) ==
    {p \in [1..(ball_n + 1) -> G] :
        \A r \in 1..(2 * ball_n) :
            DotN(BallA(ball_n, r), p, ball_n) + extra_column[r] * p[ball_n + 1]
                <= 2 * ball_b[r]}

BallBest(F) == SetMax({p[ball_n + 1] : p \in F})

InitBall ==
    /\ ball_pc = "norms" /\ ball_n \in 1..MaxBallN
    /\ \E h1 \in -1..MaxK, hi \in -1..MaxK, lo \in -1..MaxK :
          ball_b = [r \in 1..(2 * ball_n) |->
                      IF r = 1 THEN h1 ELSE IF r <= ball_n THEN hi ELSE lo]
    /\ extra_column = <<>> /\ ball_point = <<>> /\ ball_r = 0 /\ ball_out = "none"
    /\ oracle = "lattice" /\ lbSize = N /\ ubSize = N /\ cSize = N
    /\ lb = [j \in Coords |-> 0] /\ ub = [j \in Coords |-> 0]
    /\ S = <<>> /\ c = Unit(1) /\ opt_percentage = 100
    /\ pc = "idle" /\ Entry

(* lines 197-199: the norm of the next row *)
BallNorm ==
    /\ ball_pc = "norms" /\ Len(extra_column) < 2 * ball_n
    /\ extra_column' =
          Append(extra_column, Norm(BallA(ball_n, Len(extra_column) + 1)))
    /\ UNCHANGED <<ball_pc, ball_n, ball_b, ball_point, ball_r, ball_out>>

(* lines 201-223: the LP max r; without an optimum x[n].value() is None and
   line 226 compares None with 0 *)
BallSolve ==
    /\ ball_pc = "norms" /\ Len(extra_column) = 2 * ball_n
    /\ \E F \in {BallFeasible(BallGrid)} :
        \E Fin \in {{p \in F : \A j \in 1..(ball_n + 1) : p[j] \in BallInner}} :
          IF F = {} \/ Fin = {} \/ BallBest(Fin) # BallBest(F)
          THEN /\ ball_out' = "TypeError" /\ ball_pc' = "done"
               /\ UNCHANGED <<ball_point, ball_r>>
          ELSE /\ \E best \in {BallBest(F)} :
                    \E p \in {q \in F : q[ball_n + 1] = best} :
                        /\ ball_point' = [j \in 1..ball_n |-> p[j]]
                        /\ ball_r' = p[ball_n + 1]
               /\ ball_pc' = "check" /\ UNCHANGED ball_out
    /\ UNCHANGED <<ball_n, ball_b, extra_column>>

(* lines 225-231 *)
BallReturn ==
    /\ ball_pc = "check"
    /\ ball_out' = IF ball_r < 0 THEN "None" ELSE "tuple"
    /\ ball_pc' = "done"
    /\ UNCHANGED <<ball_n, ball_b, extra_column, ball_point, ball_r>>

reducer == <<oracle, lbSize, ubSize, cSize, lb, ub, S, c, opt_percentage, beq_in,
             pc, outcome, run, pass, results, locals, orig, first, converted,
             solved, solver_error>>

NextBall ==
    \/ BallNorm /\ UNCHANGED reducer
    \/ BallSolve /\ UNCHANGED reducer
    \/ BallReturn /\ UNCHANGED reducer

SpecBall == InitBall /\ [][NextBall]_vars

(* ---------------------------------------------------------------- claims *)
(* the integer points of the caller's polytope {lb <= x <= ub, S x = 0} that
   meet the cutoff c x >= -val *)
OriginalRegion ==
    Feasible(KGrid, orig.lb, orig.ub, orig.S, Zeros(Len(orig.S)), <<NegVec(c)>>, <<val>>)

(* the integer points of {A_res x <= b_res, Aeq_res x = beq_res} *)
ReducedRegion ==
    {p \in Points(KGrid) :
        /\ \A r \in 1..Len(Aeq_res) : dot(Aeq_res[r], p) * One = beq_res[r]
        /\ \A r \in 1..Len(A_res) : dot(A_res[r], p) * One <= b_res[r]}

PassDone == run = 1 /\ pass >= 1 /\ pc = "while"
Returned == pc = "done" /\ outcome = "tuple"

(* C1: with an exact solver, the system the call returns has exactly the
   points of the original polytope under the cutoff, whatever the input
   (an empty polytope and opt_percentage < 100 included). *)
C1_SameRegion ==
    (oracle = "lattice" /\ run = 1 /\ Returned) => ReducedRegion = OriginalRegion

(* C3: when the un-relaxed max (min) solve of a coordinate is not optimal,
   max_objective (min_objective) is the bound ub[i] (lb[i]) the caller passed. *)
C3_FallbackIsInputBound ==
    [][/\ (pc = "max" /\ run = 1 /\ pc' # "done" /\ status' # "Optimal")
            => max_objective' = orig.ub[i]
       /\ (pc = "min" /\ run = 1 /\ pc' # "done" /\ status' # "Optimal")
            => min_objective' = orig.lb[i]]_vars

(* C2: with lb, ub or c of the wrong length the call raises before any LP
   solve is issued and returns nothing. *)
SizeMismatch == lbSize # N \/ ubSize # N \/ cSize # N
C2_SizeErrorBeforeSolve ==
    SizeMismatch =>
        /\ ~solved
        /\ pc \in {"entry", "fba", "done"}
        /\ outcome = (IF pc = "done" THEN "Exception" ELSE "none")
C2_Witness ==
    /\ pc = "done" /\ outcome = "Exception" /\ ~solved
    /\ lbSize = N /\ ubSize = N /\ cSize # N

(* C4: when the solver raises in any solve of the call, the FBA solve
   included, the call ends returning None and no exception reaches the
   caller. *)
C4_SolverErrorReturnsNone ==
    solver_error => (pc = "done" /\ outcome = "None")

(* C5: a second run on the system the first run returned (the surviving
   bounds as the box, the released ones unbounded, the returned equalities as
   the equality system) ends its first pass with removed = 0 and offset = 0,
   and returns the system it was given. *)
C5_Idempotent ==
    /\ (run = 2 /\ pass = 1 /\ pc = "while") => (removed = 0 /\ offset = 0)
    /\ (run = 2 /\ Returned) => Result = first

(* C6: the equality rows never decrease, and a coordinate turned into an
   equality is never again undecided: it is not visited later in the pass or
   in a later pass, and A_res holds no row of either of its sides. *)
Rows(j) == {A(j), A(N + j)}
C6_EqualitiesGrow ==
    [][/\ Len(Aeq_res') >= Len(Aeq_res)
       /\ Len(beq_res') >= Len(beq_res)
       /\ \A j \in converted' :
            /\ \A q \in 1..Len(indices_iter') : indices_iter'[q] # j
            /\ \A q \in k'..Len(indices') : indices'[q] # j
            /\ \A r \in 1..Len(A_res') : A_res'[r] \notin Rows(j)]_vars
C6_Witness ==
    /\ pass >= 2 /\ pc = "max"
    /\ \E j \in converted : \A q \in 1..Len(indices) : indices[q] # j

(* C7: a side whose relaxed optimum is within redundant_facet_tol of the
   original one, the tolerance itself included, is flagged and counted in
   removed; only a larger gap keeps it active. *)
C7_ToleranceBoundary ==
    [][/\ (pc = "max_relaxed" /\ pc' = "min" /\ status' = "Optimal") =>
            IF Abs(max_objective2' - max_objective) <= RedundantFacetTol
            THEN /\ facet_right_removed'[i] /\ removed' = removed + 1
                 /\ redundant_facet_right'
            ELSE /\ ~facet_right_removed'[i] /\ removed' = removed
                 /\ ~redundant_facet_right'
       /\ (pc = "min_relaxed" /\ pc' = "decide" /\ status' = "Optimal") =>
            IF Abs(min_objective2' - min_objective) <= RedundantFacetTol
            THEN /\ facet_left_removed'[i] /\ removed' = removed + 1
                 /\ redundant_facet_left'
            ELSE /\ ~facet_left_removed'[i] /\ removed' = removed
                 /\ ~redundant_facet_left']_vars
C7_Witness ==
    /\ pass = 1 /\ k = 1 /\ pc = "min" /\ status = "Optimal"
    /\ Abs(max_objective2 - max_objective) = RedundantFacetTol
    /\ facet_right_removed[i] /\ removed = 1 /\ redundant_facet_right

(* C8: the returned Aeq_res and A_res have n columns, Aeq_res and beq_res
   have m more rows than coordinates were turned into equalities, and b_res
   has an entry for each row of A_res. *)
C8_Shapes ==
    Returned =>
        /\ \A r \in 1..Len(A_res) : DOMAIN A_res[r] = Coords
        /\ \A r \in 1..Len(Aeq_res) : DOMAIN Aeq_res[r] = Coords
        /\ Len(Aeq_res) = Len(S) + Cardinality(converted)
        /\ Len(beq_res) = Len(S) + Cardinality(converted)
        /\ Len(b_res) = Len(A_res)
C8_Witness ==
    /\ Returned /\ Len(S) = 1 /\ converted # {} /\ Len(A_res) > 0

(* C10: within a call the removed flags are never reset, and no relaxed
   solve is issued for a side that is flagged. *)
C10_NoRetest ==
    [][/\ pc # "fba" =>
            \A j \in Coords :
                /\ facet_right_removed[j] => facet_right_removed'[j]
                /\ facet_left_removed[j] => facet_left_removed'[j]
       /\ pc' = "max_relaxed" => ~facet_right_removed'[i']
       /\ pc' = "min_relaxed" => ~facet_left_removed'[i']]_vars
C10_Witness ==
    /\ pass >= 2 /\ pc = "min" /\ facet_right_removed[i] /\ status # "Optimal"

(* C11: the pass loop terminates, after at most 3n + 1 passes, whatever the
   solver answers: at the end of every pass that is not the last one at least
   one more side is flagged or one more coordinate is an equality than passes
   have gone before, and the call ends. *)
NumFlags ==
    Cardinality({j \in Coords : facet_left_removed[j]})
        + Cardinality({j \in Coords : facet_right_removed[j]})
PassProgress ==
    /\ pass <= 3 * N + 1
    /\ (pc = "while" /\ pass >= 1) =>
          pass <= NumFlags + Cardinality(converted)
                    + (IF removed = 0 /\ offset = 0 THEN 1 ELSE 0)
C11_PassLoopTerminates == []PassProgress /\ <>[](pc = "done")
C11_Witness ==
    /\ oracle = "free" /\ Returned /\ pass = 2 * N + 1
    /\ removed = 0 /\ offset = 0 /\ NumFlags + Cardinality(converted) >= 2 * N

(* C12: the cutoff floor(optimal_value / tol) * tol * opt_percentage / 100,
   which is -val in the code, never exceeds the FBA optimum, so the cutoff
   row leaves a feasible polytope feasible. *)
FbaOptimum == LatticeSolve("max", c, lb, ub, S, beq_in, <<>>, <<>>)
C12_CutoffBelowOptimum ==
    (oracle = "lattice" /\ run = 1 /\ pc = "while" /\ pass = 0
        /\ FbaOptimum.status = "Optimal")
      => /\ 0 - val <= FbaOptimum.value
         /\ Feasible(KGrid, lb, ub, S, beq_in, <<NegVec(c)>>, <<val>>) # {}

(* C13: every LP solved for a coordinate is constrained by the current
   equalities, those of coordinates converted earlier in the same pass
   included: a converted coordinate has its equality row in the model of
   every later solve. *)
SolvePcs == {"max", "max_relaxed", "min", "min_relaxed"}
C13_SolvesUseCurrentEqualities ==
    (pc \in SolvePcs) =>
        /\ Aeq = Aeq_res /\ beq = beq_res
        /\ \A j \in converted : \E r \in 1..Len(Aeq) : Aeq[r] = A(j)

(* C9: on the box A = [I; -I], b = (k, ..., k) with k >= 0, inner_ball returns
   a pair whose radius is k (2k halves). *)
UniformBox == \A r \in 1..(2 * ball_n) : ball_b[r] = ball_b[1]
C9_BoxRadius ==
    (ball_pc = "done" /\ UniformBox /\ ball_b[1] >= 0)
        => (ball_out = "tuple" /\ ball_r = 2 * ball_b[1])
C9_Witness ==
    /\ ball_pc = "done" /\ UniformBox /\ ball_b[1] = 1 /\ ball_n = MaxBallN
    /\ ball_out = "tuple" /\ ball_r = 2

====
